---- MODULE Spec2Model ----
(***************************************************************************)
(* Model of stream_alert/rule_processor/classifier.py (StreamClassifier):  *)
(* source resolution, candidate enumeration, ambiguity resolution, type    *)
(* coercion and the classification of a payload; and of the publishing of  *)
(* counters in stream_alert/rule_processor/metrics.py.                     *)
(*                                                                         *)
(* Python values are records [k, s, sub]: k is the Python type, s the text *)
(* of a scalar, sub the items of a list or the (key, value) entries of a   *)
(* dict.  A call has three outcomes: it returns a truthy value, returns a  *)
(* falsy value, or raises.                                                 *)
(***************************************************************************)
EXTENDS Integers, Sequences, FiniteSets, TLC

VARIABLES
    SUPPORT_MULTIPLE_SCHEMA_MATCHING, \* the module-level mode flag
    config_sources,                   \* self._config['sources']
    entity_log_sources,               \* self._entity_log_sources (its contents)
    els_alias,                        \* the configured list self._entity_log_sources is the same object as, or NoAlias
    payload,                          \* the StreamPayload being classified
    promoted,                         \* the candidate the last successful _parse of the payload promoted
    log,                              \* LOGGER.error records of the most recent call
    call                              \* the most recent call: its name, arguments and outcome

vars == <<SUPPORT_MULTIPLE_SCHEMA_MATCHING, config_sources, entity_log_sources,
          els_alias, payload, promoted, log, call>>

-----------------------------------------------------------------------------
(* Bounds *)

MaxDepth == 2      \* nesting depth of the schemas and values fed to _convert_type
MaxRecords == 2    \* number of records in one raw input

-----------------------------------------------------------------------------
(* Python values *)

Str(s) == [k |-> "str", s |-> s, sub |-> <<>>]
PyInt(s) == [k |-> "int", s |-> s, sub |-> <<>>]
PyFloat(s) == [k |-> "float", s |-> s, sub |-> <<>>]
PyBool(b) == [k |-> "bool", s |-> IF b THEN "True" ELSE "False", sub |-> <<>>]
None == [k |-> "NoneType", s |-> "None", sub |-> <<>>]
\* a unicode string holding a non-ASCII character (json.loads yields unicode)
NonAscii == [k |-> "unicode", s |-> "caf\\xe9", sub |-> <<>>]
Item(key, val) == [key |-> key, val |-> val]
List(items) == [k |-> "list", s |-> "", sub |-> [i \in DOMAIN items |-> Item("", items[i])]]
Dict(entries) == [k |-> "dict", s |-> "", sub |-> entries]

HasKey(d, key) == \E i \in DOMAIN d.sub : d.sub[i].key = key
IndexOf(d, key) == CHOOSE i \in DOMAIN d.sub : d.sub[i].key = key
\* d[key] can be read: d is a dict holding the key (KeyError, TypeError otherwise)
Readable(d, key) == d.k = "dict" /\ HasKey(d, key)
GetItem(d, key) == d.sub[IndexOf(d, key)].val
SetItem(d, key, val) == [d EXCEPT !.sub[IndexOf(d, key)].val = val]

\* the decimal strings int() and float() accept, with the text of the result
IntLiteral == ("100" :> "100") @@ ("200" :> "200")
FloatLiteral == ("100" :> "100.0") @@ ("200" :> "200.0") @@ ("12.1" :> "12.1") @@ ("20.1" :> "20.1")
Truncated == ("100.0" :> "100") @@ ("200.0" :> "200") @@ ("12.1" :> "12") @@ ("20.1" :> "20")
Lower == ("True" :> "true") @@ ("False" :> "false") @@ ("Sns" :> "sns")

Ok(v) == [st |-> "ok", val |-> v]
Err(kind) == [st |-> kind, val |-> None]

\* str(v): fails on a unicode string with a non-ASCII character only
str(v) ==
    CASE v.k = "str" -> Ok(v)
      [] v.k = "unicode" -> Err("UnicodeEncodeError")
      [] v.k \in {"int", "float", "bool", "NoneType"} -> Ok(Str(v.s))
      [] OTHER -> Ok(Str("repr"))

\* int(v): ValueError for a string that is no integer literal (UnicodeEncodeError
\* is a ValueError), TypeError for None, a list or a dict
int(v) ==
    CASE v.k = "str" -> IF v.s \in DOMAIN IntLiteral THEN Ok(PyInt(IntLiteral[v.s]))
                        ELSE Err("ValueError")
      [] v.k = "unicode" -> Err("ValueError")
      [] v.k = "int" -> Ok(v)
      [] v.k = "float" -> Ok(PyInt(Truncated[v.s]))
      [] v.k = "bool" -> Ok(PyInt(IF v.s = "True" THEN "1" ELSE "0"))
      [] OTHER -> Err("TypeError")

\* float(v)
float(v) ==
    CASE v.k = "str" -> IF v.s \in DOMAIN FloatLiteral THEN Ok(PyFloat(FloatLiteral[v.s]))
                        ELSE Err("ValueError")
      [] v.k = "unicode" -> Err("ValueError")
      [] v.k = "int" -> Ok(PyFloat(FloatLiteral[v.s]))
      [] v.k = "float" -> Ok(v)
      [] v.k = "bool" -> Ok(PyFloat(IF v.s = "True" THEN "1.0" ELSE "0.0"))
      [] OTHER -> Err("TypeError")

\* str(v).lower() == 'true'
lower(s) == IF s \in DOMAIN Lower THEN Lower[s] ELSE s
boolean(v) ==
    LET r == str(v)
    IN  IF r.st = "ok" THEN Ok(PyBool(lower(r.val.s) = "true")) ELSE r

-----------------------------------------------------------------------------
(* Schema trees: a node is a type tag, a list marker or a nested mapping;  *)
(* a mapping is the sequence of its (key, node) entries in iteration order *)

Tag(t) == [tag |-> t, sub |-> <<>>]
ListMarker == [tag |-> "list", sub |-> <<>>]
Mapping(entries) == [tag |-> "dict", sub |-> entries]
Field(key, node) == [key |-> key, node |-> node]

EnvelopeKey == "streamalert:envelope_keys"

LogRecord(msg, key, val) == [msg |-> msg, key |-> key, val |-> val]
NotAnInt == "Invalid schema. Value for key [%s] is not an int: %s"
NotAFloat == "Invalid schema. Value for key [%s] is not a float: %s"
Unsupported == "Unsupported schema type: %s"

\* the outcome of a call of _convert_type: what it returned (or that it raised),
\* the record as the call left it, and what it logged
Outcome(ret, rec, lg) == [ret |-> ret, payload |-> rec, log |-> lg]

ListFieldStringified(rec, key) ==
    IF Readable(rec, key) THEN SetItem(rec, key, str(GetItem(rec, key)).val) ELSE rec

\* the record after the branch of a list marker: pass
ListField(rec, key) == rec

SkipsEnvelopeNever(rec, key) == FALSE

\* key == 'streamalert:envelope_keys' and not isinstance(payload[key], dict)
SkipsEnvelope(rec, key) == key = EnvelopeKey /\ GetItem(rec, key).k # "dict"

RECURSIVE ConvertFrom(_, _, _, _)
\* the loop of _convert_type from the i-th schema entry on
ConvertFrom(rec, schema, i, lg) ==
    IF i > Len(schema) THEN Outcome("True", rec, lg)
    ELSE
      LET key == schema[i].key
          value == schema[i].node
          next(r, l) == ConvertFrom(r, schema, i + 1, l)
          scalar(conv(_), msg) ==
              IF ~Readable(rec, key) THEN Outcome("raise", rec, lg)
              ELSE LET r == conv(GetItem(rec, key))
                   IN  CASE r.st = "ok" -> next(SetItem(rec, key, r.val), lg)
                         [] r.st = "ValueError" /\ msg # "" ->
                              Outcome("False", rec,
                                      Append(lg, LogRecord(msg, key, GetItem(rec, key))))
                         [] OTHER -> Outcome("raise", rec, lg)
      IN  CASE value.tag = "string" -> scalar(str, "")
            [] value.tag = "integer" -> scalar(int, NotAnInt)
            [] value.tag = "float" -> scalar(float, NotAFloat)
            [] value.tag = "boolean" -> scalar(boolean, "")
            [] value.tag = "dict" ->
                 IF value.sub = <<>> THEN next(rec, lg)
                 ELSE IF ~Readable(rec, key) THEN Outcome("raise", rec, lg)
                 ELSE IF SkipsEnvelope(rec, key) THEN next(rec, lg)
                 ELSE LET inner == ConvertFrom(GetItem(rec, key), value.sub, 1, lg)
                          rec2 == SetItem(rec, key, inner.payload)
                      IN  IF inner.ret = "raise" THEN Outcome("raise", rec2, inner.log)
                          \* the value the recursive call returns is not used
                          ELSE next(rec2, inner.log)
            [] value.tag = "list" -> next(ListField(rec, key), lg)
            [] OTHER -> next(rec, Append(lg, LogRecord(Unsupported, value.tag, None)))

\* StreamClassifier._convert_type(payload, schema)
_convert_type(rec, schema) == ConvertFrom(rec, schema, 1, <<>>)

-----------------------------------------------------------------------------
(* Strings that the code splits are sequences of tokens: a token is a      *)
(* delimiter ("/" or ":") or a piece of text holding no delimiter          *)

RECURSIVE split(_, _)
\* s.split(d)
split(s, d) ==
    IF \A i \in DOMAIN s : s[i] # d THEN <<s>>
    ELSE LET i == CHOOSE j \in DOMAIN s : s[j] = d /\ \A h \in 1..(j - 1) : s[h] # d
         IN  <<SubSeq(s, 1, i - 1)>> \o split(SubSeq(s, i + 1, Len(s)), d)

-----------------------------------------------------------------------------
(* Configuration *)

NoPatterns == <<>>
Pattern(key, accepted) == [key |-> key, accepted |-> accepted]
LogAttributes(name, parser, schema, patterns) ==
    [name |-> name, parser |-> parser, schema |-> schema,
     configuration |-> [log_patterns |-> patterns]]

\* config['logs'], in the order its keys are iterated
ConfigLogs ==
    << LogAttributes(<<"simple">>, "json",
                     <<Field("key_01", Tag("integer")), Field("key_02", Tag("string"))>>,
                     NoPatterns),
       LogAttributes(<<"multi", ":", "01">>, "json",
                     <<Field("key_01", Tag("string")), Field("key_02", Tag("string"))>>,
                     <<Pattern("key_02", {"added", "both"})>>),
       LogAttributes(<<"multi", ":", "02">>, "json",
                     <<Field("key_01", Tag("integer")), Field("key_02", Tag("string"))>>,
                     <<Pattern("key_02", {"removed", "both"})>>),
       LogAttributes(<<"nested">>, "json",
                     <<Field("key_01", Mapping(<<Field("nested_key_01", Tag("integer"))>>))>>,
                     NoPatterns),
       LogAttributes(<<"kv_log">>, "kv",
                     <<Field("key_01", Tag("string"))>>,
                     <<Pattern("key_01", {"x"})>>) >>

Logs(names) == [logs |-> names]

\* config['sources']: service -> entity -> {'logs': [...]}
ConfigSources ==
    ("kinesis" :>
        ( (<<"stream_simple">> :> Logs(<<<<"simple">>>>))
       @@ (<<"stream_multi">> :> Logs(<<<<"multi">>>>))
       @@ (<<"stream_mixed">> :> Logs(<<<<"nested">>, <<"multi">>, <<"simple">>>>))
       @@ (<<"stream_variant">> :> Logs(<<<<"multi", ":", "01">>>>))
       @@ (<<"stream_empty">> :> Logs(<<>>)) ))
 @@ ("s3" :>
        ( (<<"bucket_kv">> :> Logs(<<<<"kv_log">>>>)) ))

-----------------------------------------------------------------------------
(* Source Resolver: load_sources *)

NoAlias == <<>>
ServiceMissing == "Service [%s] not declared in sources configuration"
EntityMissing == "Entity [%s] not declared in sources configuration for service [%s]"

DelSliceKept(els) == els

\* del self._entity_log_sources[:] : what the list holds afterwards
DelSlice(els) == <<>>

\* the configuration after del self._entity_log_sources[:] : the configured
\* list is emptied too when the two are one list object
Cleared(cfg, alias) ==
    IF alias = NoAlias THEN cfg
    ELSE [cfg EXCEPT ![alias[1]][alias[2]].logs = <<>>]

SliceAliased(cfg, service, entity) ==
    [list |-> cfg[service][entity].logs, alias |-> <<service, entity>>]

\* config_entity['logs'][:] : a new list with the same items
SliceCopy(cfg, service, entity) ==
    [list |-> cfg[service][entity].logs, alias |-> NoAlias]

\* the state load_sources leaves and what it returns
Loaded(cfg, els, alias, ret, lg) ==
    [config |-> cfg, entity_log_sources |-> els, alias |-> alias, ret |-> ret, log |-> lg]

load_sources_one_message(cfg, els, alias, service, entity) ==
    LET cfg1 == Cleared(cfg, alias)
        els1 == DelSlice(els)
    IN  IF service \notin DOMAIN cfg1 \/ DOMAIN cfg1[service] = {}
             \/ entity \notin DOMAIN cfg1[service]
        THEN Loaded(cfg1, els1, alias, FALSE, <<LogRecord(ServiceMissing, service, entity)>>)
        ELSE LET copy == SliceCopy(cfg1, service, entity)
             IN  Loaded(cfg1, copy.list, copy.alias, copy.list # <<>>, <<>>)

load_sources_keeps_on_failure(cfg, els, alias, service, entity) ==
    IF service \notin DOMAIN cfg \/ DOMAIN cfg[service] = {}
    THEN Loaded(cfg, els, alias, FALSE, <<LogRecord(ServiceMissing, service, entity)>>)
    ELSE IF entity \notin DOMAIN cfg[service]
    THEN Loaded(cfg, els, alias, FALSE, <<LogRecord(EntityMissing, service, entity)>>)
    ELSE LET copy == SliceCopy(Cleared(cfg, alias), service, entity)
         IN  Loaded(Cleared(cfg, alias), copy.list, copy.alias, copy.list # <<>>, <<>>)

\* StreamClassifier.load_sources(service, entity)
load_sources(cfg, els, alias, service, entity) ==
    LET cfg1 == Cleared(cfg, alias)
        els1 == DelSlice(els)
    IN  IF service \notin DOMAIN cfg1 \/ DOMAIN cfg1[service] = {}
        THEN Loaded(cfg1, els1, alias, FALSE, <<LogRecord(ServiceMissing, service, entity)>>)
        ELSE IF entity \notin DOMAIN cfg1[service]
        THEN Loaded(cfg1, els1, alias, FALSE, <<LogRecord(EntityMissing, service, entity)>>)
        ELSE LET copy == SliceCopy(cfg1, service, entity)
             IN  Loaded(cfg1, copy.list, copy.alias, copy.list # <<>>, <<>>)

-----------------------------------------------------------------------------
(* Schema Parser Adapter (stream_alert.rule_processor.parsers)             *)

\* a raw input: the format it is written in and the records it holds
Raw(format, records) == [format |-> format, records |-> records]
Keys(entries) == {entries[i].key : i \in DOMAIN entries}

\* parser_class(options)
Parser(parser_name, options) == [type |-> parser_name, options |-> options]

\* parser.parse(schema, data): the records of the input when the input is in
\* the parser's format and every record has the schema's keys, else nothing
parse(parser, schema, data) ==
    IF /\ data.format = parser.type
       /\ \A i \in DOMAIN data.records : Keys(data.records[i].sub) = Keys(schema)
    THEN data.records
    ELSE <<>>

\* parser.matched_log_pattern(record, log_patterns)
matched_log_pattern(rec, log_patterns) ==
    \A i \in DOMAIN log_patterns :
        /\ Readable(rec, log_patterns[i].key)
        /\ GetItem(rec, log_patterns[i].key).s \in log_patterns[i].accepted

-----------------------------------------------------------------------------
(* Candidate Enumerator *)

RECURSIVE InListOrder(_, _)
\* the declared logs of the families els[i], els[i+1], ... family by family
InListOrder(els, i) ==
    IF i > Len(els) THEN <<>>
    ELSE SelectSeq(ConfigLogs, LAMBDA a : split(a.name, ":")[1] = els[i])
           \o InListOrder(els, i + 1)

_get_log_info_in_list_order(els) == InListOrder(els, 1)

_get_log_info_by_name(els) ==
    SelectSeq(ConfigLogs, LAMBDA a : \E i \in DOMAIN els : a.name = els[i])

\* _get_log_info_for_source(): the declared logs whose family is eligible
_get_log_info_for_source(els) ==
    SelectSeq(ConfigLogs, LAMBDA a : \E i \in DOMAIN els : split(a.name, ":")[1] = els[i])

\* the namedtuple ClassifiedLog
classified_log(log_name, root_schema, parser, parsed_data) ==
    [log_name |-> log_name, root_schema |-> root_schema, parser |-> parser,
     parsed_data |-> parsed_data]

AllMatchIgnored(parser, records, log_patterns) == TRUE

\* all(parser.matched_log_pattern(rec, log_patterns) for rec in parsed_data)
AllMatch(parser, records, log_patterns) ==
    \A i \in DOMAIN records : matched_log_pattern(records[i], log_patterns)

RECURSIVE ProcessFrom(_, _, _, _, _)
\* the loop of _process_log_schemas from the i-th entry of log_info on
ProcessFrom(log_info, i, pl, multi, valid_parses) ==
    IF i > Len(log_info) THEN valid_parses
    ELSE
      LET attributes == log_info[i]
          parser_name == IF pl.type # "" THEN pl.type ELSE attributes.parser
          schema == attributes.schema
          parser == Parser(parser_name, attributes.configuration)
          parsed_data == parse(parser, schema, pl.pre_parsed_record)
          this == classified_log(attributes.name, schema, parser, parsed_data)
      IN  IF parsed_data = <<>> THEN ProcessFrom(log_info, i + 1, pl, multi, valid_parses)
          ELSE IF multi THEN ProcessFrom(log_info, i + 1, pl, multi, Append(valid_parses, this))
          ELSE IF AllMatch(parser, parsed_data, parser.options.log_patterns) THEN <<this>>
          ELSE ProcessFrom(log_info, i + 1, pl, multi, valid_parses)

_process_log_schemas_single(els, pl, multi) ==
    ProcessFrom(_get_log_info_for_source(els), 1, pl, FALSE, <<>>)

\* StreamClassifier._process_log_schemas(payload)
_process_log_schemas(els, pl, multi) ==
    ProcessFrom(_get_log_info_for_source(els), 1, pl, multi, <<>>)

-----------------------------------------------------------------------------
(* Ambiguity Resolver *)

PatternsTied == "Log patterns matched for multiple schemas: %s"
SchemasTied == "Log classification matched for multiple schemas: %s"
Proceeding == "Proceeding with schema for: %s"

\* matched_parses: the candidates whose every record satisfies their own patterns
matched_parses(valid_parses) ==
    SelectSeq(valid_parses,
              LAMBDA c : AllMatch(c.parser, c.parsed_data, c.parser.options.log_patterns))

Names(parses) == [i \in DOMAIN parses |-> parses[i].log_name]

_check_valid_parse_unfiltered(valid_parses, multi) == valid_parses[1]

_check_valid_parse_filtering(valid_parses, multi) ==
    IF matched_parses(valid_parses) # <<>> THEN matched_parses(valid_parses)[1]
    ELSE valid_parses[1]

\* StreamClassifier._check_valid_parse(valid_parses): the candidate it returns
_check_valid_parse(valid_parses, multi) ==
    IF Len(valid_parses) = 1 \/ ~multi THEN valid_parses[1]
    ELSE IF matched_parses(valid_parses) # <<>> THEN matched_parses(valid_parses)[1]
    ELSE valid_parses[1]

\* the LOGGER.error records of _check_valid_parse
_check_valid_parse_log(valid_parses, multi) ==
    IF Len(valid_parses) = 1 \/ ~multi THEN <<>>
    ELSE IF Len(matched_parses(valid_parses)) > 1
    THEN <<LogRecord(PatternsTied, "", Names(matched_parses(valid_parses))),
           LogRecord(Proceeding, "", matched_parses(valid_parses)[1].log_name)>>
    ELSE IF matched_parses(valid_parses) # <<>> THEN <<>>
    ELSE <<LogRecord(SchemasTied, "", Names(valid_parses)),
           LogRecord(Proceeding, "", valid_parses[1].log_name)>>

-----------------------------------------------------------------------------
(* Classification Orchestrator *)

\* a StreamPayload as load_stream_payload and pre_parse hand it over
StreamPayload(service, entity, data) ==
    [service |-> service, entity |-> entity, type |-> "", log_source |-> <<>>,
     records |-> <<>>, valid |-> FALSE, pre_parsed_record |-> data]

NoParse == classified_log(<<>>, <<>>, Parser("", [log_patterns |-> NoPatterns]), <<>>)

RECURSIVE ConvertRecords(_, _, _, _)
\* one pass of the loop of _parse, r being what _convert_type made of the i-th
\* record: the loop returns when the conversion did not succeed
ConvertRecord(records, schema, i, lg, r) ==
    IF r.ret = "True"
    THEN ConvertRecords([records EXCEPT ![i] = r.payload], schema, i + 1, lg \o r.log)
    ELSE [ret |-> r.ret, records |-> [records EXCEPT ![i] = r.payload], log |-> lg \o r.log]

\* the loop of _parse over valid_parse.parsed_data from the i-th record on:
\* the records are converted in place, up to the first that fails
ConvertRecords(records, schema, i, lg) ==
    IF i > Len(records) THEN [ret |-> "True", records |-> records, log |-> lg]
    ELSE ConvertRecord(records, schema, i, lg, _convert_type(records[i], schema))

AssignedWithoutRecords(pl, valid_parse) ==
    [pl EXCEPT !.log_source = valid_parse.log_name,
               !.type = valid_parse.parser.type]

\* the three assignments that end _parse
Assigned(pl, valid_parse) ==
    [pl EXCEPT !.log_source = valid_parse.log_name,
               !.type = valid_parse.parser.type,
               !.records = valid_parse.parsed_data]

\* the payload after the conversion loop of _parse: assigned to only when no
\* record made the loop return
AfterConversion(pl, ret, valid_parse) ==
    IF ret = "True" THEN Assigned(pl, valid_parse) ELSE pl

\* what _parse returned (or that it raised), the payload as it left it, what it
\* logged, the candidates it enumerated and the one it chose
Parsed(ret, pl, lg, valid_parses, valid_parse) ==
    [ret |-> ret, payload |-> pl, log |-> lg, valid_parses |-> valid_parses,
     valid_parse |-> valid_parse]

\* the end of _parse, conv being the outcome of the conversion loop
Finished(pl, valid_parses, valid_parse, conv) ==
    Parsed(conv.ret,
           AfterConversion(pl, conv.ret, [valid_parse EXCEPT !.parsed_data = conv.records]),
           conv.log, valid_parses,
           [valid_parse EXCEPT !.parsed_data = conv.records])

\* _parse from the choice of valid_parse on
Chosen(pl, valid_parses, valid_parse, lg) ==
    Finished(pl, valid_parses, valid_parse,
             ConvertRecords(valid_parse.parsed_data, valid_parse.root_schema, 1, lg))

\* _parse from the enumeration of valid_parses on
Enumerated(pl, multi, valid_parses) ==
    IF valid_parses = <<>> THEN Parsed("False", pl, <<>>, valid_parses, NoParse)
    ELSE Chosen(pl, valid_parses, _check_valid_parse(valid_parses, multi),
                _check_valid_parse_log(valid_parses, multi))

\* StreamClassifier._parse(payload)
_parse(els, pl, multi) == Enumerated(pl, multi, _process_log_schemas(els, pl, multi))

InvalidData == "Invalid data: %s\n%s"

AllButEntity(parse_result, p) ==
    /\ parse_result = "True"
    /\ p.service # ""
    /\ p.type # ""
    /\ p.log_source # <<>>
    /\ p.records # <<>>

\* the all([...]) of classify_record
All(parse_result, p) ==
    /\ parse_result = "True"
    /\ p.service # ""
    /\ p.entity # <<>>
    /\ p.type # ""
    /\ p.log_source # <<>>
    /\ p.records # <<>>

\* classify_record after its call of _parse: the payload is marked valid when
\* all([...]) holds, and an invalid payload is logged
Marked(parsed) ==
    IF parsed.ret = "raise" THEN parsed
    ELSE IF All(parsed.ret, parsed.payload) THEN [parsed EXCEPT !.payload.valid = TRUE]
    ELSE IF parsed.payload.valid THEN parsed
    ELSE [parsed EXCEPT !.log = Append(@, LogRecord(InvalidData, "", None))]

\* StreamClassifier.classify_record(payload): the outcome of _parse with the
\* payload as classify_record leaves it
classify_record(els, pl, multi) == Marked(_parse(els, pl, multi))

-----------------------------------------------------------------------------
(* Inputs *)

JsonRecord(a, b) == Dict(<<Item("key_01", Str(a)), Item("key_02", Str(b))>>)
NestedRecord(a) == Dict(<<Item("key_01", Dict(<<Item("nested_key_01", Str(a))>>))>>)
KvRecord(a) == Dict(<<Item("key_01", Str(a))>>)

\* the first record of a raw input and the record that follows it
JsonRecordPairs ==
    {<<JsonRecord("100", "removed"), JsonRecord("NotInt", "removed")>>,
     <<JsonRecord("100", "added"), JsonRecord("100", "removed")>>,
     <<JsonRecord("NotInt", "removed"), JsonRecord("NotInt", "removed")>>,
     <<JsonRecord("100", "both"), JsonRecord("100", "both")>>,
     <<NestedRecord("NotInt"), NestedRecord("NotInt")>>}
KvRecordPairs ==
    {<<KvRecord("x"), KvRecord("x")>>, <<KvRecord("y"), KvRecord("y")>>,
     <<KvRecord("x"), KvRecord("y")>>}

\* a first record followed by n copies of its follower
Repeated(pair, n) == <<pair[1]>> \o [i \in 1..n |-> pair[2]]

RawInputs ==
    {Raw("json", Repeated(p, n)) : p \in JsonRecordPairs, n \in 0..(MaxRecords - 1)}
      \cup {Raw("kv", Repeated(p, n)) : p \in KvRecordPairs, n \in 0..(MaxRecords - 1)}

\* the (service, entity) pairs a payload is created with
PayloadSources ==
    {<<"kinesis", <<"stream_mixed">>>>, <<"s3", <<"bucket_kv">>>>,
     <<"kinesis", <<>>>>, <<"", <<>>>>}

\* the (service, entity) pairs load_sources is called with
LoadInputs ==
    {<<"kinesis", e>> : e \in {<<"stream_simple">>, <<"stream_multi">>, <<"stream_mixed">>,
                               <<"stream_variant">>, <<"stream_empty">>,
                               <<"unit_test_bad_stream">>}}
      \cup {<<"s3", <<"bucket_kv">>>>, <<"s3", <<"stream_simple">>>>, <<"kinesys", <<>>>>}

-----------------------------------------------------------------------------
(* The classifier and one payload *)

Init ==
    /\ SUPPORT_MULTIPLE_SCHEMA_MATCHING \in BOOLEAN
    /\ config_sources = ConfigSources
    /\ entity_log_sources = <<>>
    /\ els_alias = NoAlias
    /\ \E src \in PayloadSources, data \in RawInputs :
          payload = StreamPayload(src[1], src[2], data)
    /\ promoted = NoParse
    /\ log = <<>>
    /\ call = [op |-> "__init__"]

\* classifier.load_sources(service, entity)
LoadSources ==
    \E src \in LoadInputs :
      \E r \in {load_sources(config_sources, entity_log_sources, els_alias, src[1], src[2])} :
          /\ config_sources' = r.config
          /\ entity_log_sources' = r.entity_log_sources
          /\ els_alias' = r.alias
          /\ log' = r.log
          /\ call' = [op |-> "load_sources", service |-> src[1], entity |-> src[2],
                      ret |-> r.ret,
                      repeated |-> /\ call.op = "load_sources"
                                   /\ call.service = src[1]
                                   /\ call.entity = src[2]]
          /\ UNCHANGED <<SUPPORT_MULTIPLE_SCHEMA_MATCHING, payload, promoted>>

\* the next raw record arrives: a new payload is created for it
NewPayload ==
    \E src \in PayloadSources, data \in RawInputs :
      /\ payload' = StreamPayload(src[1], src[2], data)
      /\ promoted' = NoParse
      /\ log' = <<>>
      /\ call' = [op |-> "load_stream_payload"]
      /\ UNCHANGED <<SUPPORT_MULTIPLE_SCHEMA_MATCHING, config_sources, entity_log_sources,
                     els_alias>>

\* classifier.classify_record(payload)
ClassifyRecord ==
    \E r \in {classify_record(entity_log_sources, payload, SUPPORT_MULTIPLE_SCHEMA_MATCHING)} :
        /\ payload' = r.payload
        /\ promoted' = IF r.ret = "True" THEN r.valid_parse ELSE promoted
        /\ log' = r.log
        /\ call' = [op |-> "classify_record", before |-> payload, ret |-> r.ret,
                    valid_parses |-> r.valid_parses, valid_parse |-> r.valid_parse]
        /\ UNCHANGED <<SUPPORT_MULTIPLE_SCHEMA_MATCHING, config_sources, entity_log_sources,
                       els_alias>>

\* classifier._get_log_info_for_source()
GetLogInfoForSource ==
    /\ \E log_info \in {_get_log_info_for_source(entity_log_sources)} :
          call' = [op |-> "_get_log_info_for_source",
                   ret |-> [i \in DOMAIN log_info |-> log_info[i].name]]
    /\ log' = <<>>
    /\ UNCHANGED <<SUPPORT_MULTIPLE_SCHEMA_MATCHING, config_sources, entity_log_sources,
                   els_alias, payload, promoted>>

Next == LoadSources \/ NewPayload \/ ClassifyRecord \/ GetLogInfoForSource

Spec == Init /\ [][Next]_vars

-----------------------------------------------------------------------------
(* Source Resolver: extract_service_and_entity *)

\* a raw record: the top-level keys it has and the values the mappers read;
\* bucket is <<>> when raw_record['s3'] holds no bucket name
Envelope(keys, source_arn, subscription_arn, bucket) ==
    [keys |-> keys, eventSourceARN |-> source_arn, EventSubscriptionArn |-> subscription_arn,
     bucket |-> bucket]

MapperKeys == {"kinesis", "s3", "Sns"}

Extracted(ret, service, entity) == [ret |-> ret, service |-> service, entity |-> entity]

entity_mapper_off_by_one(key, r) ==
    CASE key = "kinesis" ->
           IF "eventSourceARN" \notin r.keys \/ Len(split(r.eventSourceARN, "/")) < 2
           THEN Extracted("raise", "", <<>>)
           ELSE Extracted("return", lower(key), split(r.eventSourceARN, "/")[1])
      [] key = "s3" ->
           IF r.bucket = <<>> THEN Extracted("raise", "", <<>>)
           ELSE Extracted("return", lower(key), r.bucket)
      [] key = "Sns" ->
           IF "EventSubscriptionArn" \notin r.keys \/ Len(split(r.EventSubscriptionArn, ":")) < 6
           THEN Extracted("raise", "", <<>>)
           ELSE Extracted("return", lower(key), split(r.EventSubscriptionArn, ":")[5])

\* entity_mapper[key](raw_record)
entity_mapper(key, r) ==
    CASE key = "kinesis" ->
           IF "eventSourceARN" \notin r.keys \/ Len(split(r.eventSourceARN, "/")) < 2
           THEN Extracted("raise", "", <<>>)
           ELSE Extracted("return", lower(key), split(r.eventSourceARN, "/")[2])
      [] key = "s3" ->
           IF r.bucket = <<>> THEN Extracted("raise", "", <<>>)
           ELSE Extracted("return", lower(key), r.bucket)
      [] key = "Sns" ->
           IF "EventSubscriptionArn" \notin r.keys \/ Len(split(r.EventSubscriptionArn, ":")) < 6
           THEN Extracted("raise", "", <<>>)
           ELSE Extracted("return", lower(key), split(r.EventSubscriptionArn, ":")[6])

\* StreamClassifier.extract_service_and_entity(raw_record): the outcomes it can
\* have; the mapper keys are tried in the iteration order of a dict, which the
\* code does not fix, and the first key found in the record is used
extract_service_and_entity(r) ==
    IF MapperKeys \cap r.keys = {} THEN {Extracted("return", "", <<>>)}
    ELSE {entity_mapper(key, r) : key \in MapperKeys \cap r.keys}

KinesisArns ==
    {<<"arn", ":", "aws", ":", "kinesis", ":", "EXAMPLE", "/", "unit_test_stream_name">>,
     <<"arn", ":", "aws", ":", "kinesis", ":", "EXAMPLE">>,
     <<"arn", ":", "aws", ":", "kinesis", ":", "EXAMPLE", "/">>,
     <<"arn", ":", "stream", "/", "unit_test_stream_name", "/", "consumer", "/", "c1">>}
SnsArns ==
    {<<"arn", ":", "aws", ":", "sns", ":", "us-east-1", ":", "123456789012", ":", "unit_test_topic">>,
     <<"arn", ":", "aws", ":", "sns", ":", "us-east-1", ":", "123456789012">>,
     <<"arn", ":", "aws", ":", "sns", ":", "us-east-1", ":", "123456789012", ":", "unit_test_topic",
       ":", "sub-id">>}
Buckets == {<<"unit_test_bucket">>, <<>>}

Envelopes ==
    {Envelope(keys, a, b, c) :
        keys \in SUBSET (MapperKeys \cup {"eventSourceARN", "EventSubscriptionArn"}),
        a \in KinesisArns, b \in SnsArns, c \in Buckets}

\* the classifier and the payload at rest
Idle ==
    /\ SUPPORT_MULTIPLE_SCHEMA_MATCHING = FALSE
    /\ config_sources = ConfigSources
    /\ entity_log_sources = <<>>
    /\ els_alias = NoAlias
    /\ payload = StreamPayload("", <<>>, Raw("json", <<>>))
    /\ promoted = NoParse
    /\ log = <<>>

InitExtract ==
    /\ Idle
    /\ \E r \in Envelopes : call = [op |-> "input", raw_record |-> r]

\* StreamClassifier.extract_service_and_entity(raw_record)
Extract ==
    /\ call.op = "input"
    /\ \E out \in extract_service_and_entity(call.raw_record) :
          call' = [op |-> "extract_service_and_entity", raw_record |-> call.raw_record,
                   out |-> out]
    /\ UNCHANGED <<SUPPORT_MULTIPLE_SCHEMA_MATCHING, config_sources, entity_log_sources,
                   els_alias, payload, promoted, log>>

NextExtract == Extract

SpecExtract == InitExtract /\ [][NextExtract]_vars

-----------------------------------------------------------------------------
(* Type Coercion Engine on its own *)

NestedKey == "nested_key_01"

ScalarNodes ==
    {Tag("string"), Tag("integer"), Tag("float"), Tag("boolean"), Tag("boopean"),
     ListMarker, Mapping(<<>>)}

RECURSIVE NestedNodes(_)
\* the nested mappings of depth 1..d around an integer or a float
NestedNodes(d) ==
    IF d = 0 THEN {}
    ELSE {Mapping(<<Field(NestedKey, n)>>) :
             n \in {Tag("integer"), Tag("float")} \cup NestedNodes(d - 1)}

SchemaNodes == ScalarNodes \cup NestedNodes(MaxDepth)

ScalarValues ==
    {Str("100"), Str("12.1"), Str("NotInt"), Str("true"), None, NonAscii,
     List(<<Str("hi"), Str("100")>>)}

RECURSIVE NestedValues(_)
\* the nested dicts of depth 1..d around a string
NestedValues(d) ==
    IF d = 0 THEN {}
    ELSE {Dict(<<Item(NestedKey, v)>>) :
             v \in {Str("20.1"), Str("NotFloat")} \cup NestedValues(d - 1)}

Values == ScalarValues \cup NestedValues(MaxDepth)

ConvertKeys == {"key_01", EnvelopeKey}

\* the schemas of one or two fields, in either iteration order
Schemas ==
    {<<Field(k, n)>> : k \in ConvertKeys, n \in SchemaNodes}
      \cup {sc \in {<<Field(k1, n1), Field(k2, n2)>> :
                         k1 \in ConvertKeys, k2 \in ConvertKeys,
                         n1 \in SchemaNodes, n2 \in SchemaNodes} : sc[1].key # sc[2].key}

\* the records that hold any of the keys
Records ==
    {Dict(<<Item("key_01", v)>>) : v \in Values}
      \cup {Dict(<<Item(EnvelopeKey, v)>>) : v \in Values}
      \cup {Dict(<<Item("key_01", v1), Item(EnvelopeKey, v2)>>) : v1 \in Values, v2 \in Values}
      \cup {Dict(<<>>)}

InitConvert ==
    /\ Idle
    /\ \E rec \in Records, schema \in Schemas :
          call = [op |-> "input", payload |-> rec, schema |-> schema]

\* StreamClassifier._convert_type(payload, schema)
Convert ==
    /\ call.op = "input"
    /\ \E out \in {_convert_type(call.payload, call.schema)} :
           /\ call' = [op |-> "_convert_type", payload |-> call.payload,
                       schema |-> call.schema, out |-> out]
           /\ log' = out.log
    /\ UNCHANGED <<SUPPORT_MULTIPLE_SCHEMA_MATCHING, config_sources, entity_log_sources,
                   els_alias, payload, promoted>>

NextConvert == Convert

SpecConvert == InitConvert /\ [][NextConvert]_vars

-----------------------------------------------------------------------------
(* Ambiguity Resolver on its own: _check_valid_parse is a static method,   *)
(* called with the candidates _process_log_schemas enumerated in           *)
(* multi-match mode, whatever the mode is at the call                      *)

\* the lists of logs the configuration declares for an entity
DeclaredLists ==
    UNION {{ConfigSources[service][entity].logs : entity \in DOMAIN ConfigSources[service]} :
              service \in DOMAIN ConfigSources}

InitResolve ==
    /\ SUPPORT_MULTIPLE_SCHEMA_MATCHING \in BOOLEAN
    /\ config_sources = ConfigSources
    /\ entity_log_sources \in DeclaredLists
    /\ els_alias = NoAlias
    /\ \E src \in PayloadSources, data \in RawInputs :
          payload = StreamPayload(src[1], src[2], data)
    /\ promoted = NoParse
    /\ log = <<>>
    /\ call = [op |-> "input",
               valid_parses |-> _process_log_schemas(entity_log_sources, payload, TRUE)]
    /\ call.valid_parses # <<>>

\* StreamClassifier._check_valid_parse(valid_parses)
CheckValidParse ==
    /\ call.op = "input"
    /\ call' = [op |-> "_check_valid_parse", valid_parses |-> call.valid_parses,
                ret |-> _check_valid_parse(call.valid_parses,
                                           SUPPORT_MULTIPLE_SCHEMA_MATCHING)]
    /\ log' = _check_valid_parse_log(call.valid_parses, SUPPORT_MULTIPLE_SCHEMA_MATCHING)
    /\ UNCHANGED <<SUPPORT_MULTIPLE_SCHEMA_MATCHING, config_sources, entity_log_sources,
                   els_alias, payload, promoted>>

NextResolve == CheckValidParse

SpecResolve == InitResolve /\ [][NextResolve]_vars

-----------------------------------------------------------------------------
(* Metrics sink: stream_alert/rule_processor/metrics.py                    *)

\* the values of Metrics.Name.__dict__ : the metric names, and the module name
\* and the docstring of the class
MetricsName ==
    {"RuleProcessorFailedParses", "RuleProcessorS3DownloadTime", "RuleProcessorTotalRecords",
     "RuleProcessorTotalS3Records", "RuleProcessorTotalSNSRecords",
     "RuleProcessorTotalKinesisRecords", "RuleProcessorTriggeredAlerts",
     "stream_alert.rule_processor.metrics",
     "Constant metric names used in the rule processor"}

\* the values of Metrics.Unit.__dict__
MetricsUnit ==
    {"Seconds", "Microseconds", "Milliseconds", "Bytes", "Kilobytes", "Megabytes", "Gigabytes",
     "Terabytes", "Bits", "Kilobits", "Megabits", "Gigabits", "Terabits", "Percent", "Count",
     "Bytes/Second", "Kilobytes/Second", "Megabytes/Second", "Gigabytes/Second",
     "Terabytes/Second", "Bits/Second", "Kilobits/Second", "Megabits/Second",
     "Gigabits/Second", "Terabits/Second", "Count/Second", "None",
     "stream_alert.rule_processor.metrics", "Unit names for metrics"}

NameNotDefined == "Metric name not defined: %s"
UnitNotDefined == "Metric unit not defined: %s"
FailedToSend == "Failed to send metric to CloudWatch. Error: %s\nMetric:\n%s"

\* datetime.utcnow()
UtcNow == [k |-> "datetime", s |-> "utcnow", sub |-> <<>>]

\* one item of MetricData
MetricDatum(metric_name, timestamp, unit, value) ==
    Dict(<<Item("MetricName", Str(metric_name)), Item("Timestamp", timestamp),
           Item("Unit", Str(unit)), Item("Value", value)>>)

\* what BOTO_CW_CLIENT.put_metric_data does: it returns, or raises ClientError
\* (the service answers with an error), EndpointConnectionError (the service
\* cannot be reached) or ParamValidationError (the request is not well formed);
\* the last two are BotoCoreErrors and no ClientError
SinkOutcomes == {"ok", "ClientError", "EndpointConnectionError", "ParamValidationError"}

RECURSIVE Serializable(_)
\* json.dumps accepts the value: it raises TypeError for a datetime
Serializable(v) ==
    /\ v.k # "datetime"
    /\ \A i \in DOMAIN v.sub : Serializable(v.sub[i].val)

json_dumps(v) == IF Serializable(v) THEN Ok(Str("json")) ELSE Err("TypeError")

\* how a call of the metrics module ends and what it logged
Sent(ret, lg) == [ret |-> ret, log |-> lg]

\* _put_metric(data), sink being what the CloudWatch client does
_put_metric(data, sink) ==
    CASE sink = "ok" -> Sent("return", <<>>)
      [] sink = "ClientError" ->
           \* the arguments of LOGGER.exception are evaluated in the handler
           IF json_dumps(data).st = "ok"
           THEN Sent("return", <<LogRecord(FailedToSend, "", data)>>)
           ELSE Sent("raise", <<>>)
      [] OTHER -> Sent("raise", <<>>)

\* put_metric_data(metric_name, value, unit)
put_metric_data(metric_name, value, unit, sink) ==
    IF metric_name \notin MetricsName
    THEN Sent("return", <<LogRecord(NameNotDefined, "", Str(metric_name))>>)
    ELSE IF unit \notin MetricsUnit
    THEN Sent("return", <<LogRecord(UnitNotDefined, "", Str(unit))>>)
    ELSE _put_metric(List(<<MetricDatum(metric_name, UtcNow, unit, value)>>), sink)

MetricNameInputs ==
    {"RuleProcessorTotalRecords", "RuleProcessorFailedParses", "RuleProcessorTotalS3Records",
     "RuleProcessorUndefined"}
MetricUnitInputs == {"Count", "Seconds", "Minutes"}
MetricValueInputs == {PyInt("100"), PyFloat("12.1")}
\* the data _put_metric is called with on its own
MetricDataInputs ==
    {List(<<MetricDatum(n, t, "Count", PyInt("100"))>>) :
        n \in {"RuleProcessorTotalRecords", "RuleProcessorFailedParses"},
        t \in {UtcNow, Str("2017-06-01T00:00:00")}}

InitMetrics ==
    /\ Idle
    /\ \/ \E n \in MetricNameInputs, v \in MetricValueInputs, u \in MetricUnitInputs,
             sink \in SinkOutcomes :
             call = [op |-> "input", fn |-> "put_metric_data", metric_name |-> n,
                     value |-> v, unit |-> u, sink |-> sink]
       \/ \E data \in MetricDataInputs, sink \in SinkOutcomes :
             call = [op |-> "input", fn |-> "_put_metric", data |-> data, sink |-> sink]

\* put_metric_data(metric_name, value, unit)
PutMetricData ==
    /\ call.op = "input"
    /\ call.fn = "put_metric_data"
    /\ \E out \in {put_metric_data(call.metric_name, call.value, call.unit, call.sink)} :
          /\ call' = [op |-> "put_metric_data", metric_name |-> call.metric_name,
                      value |-> call.value, unit |-> call.unit, sink |-> call.sink,
                      out |-> out]
          /\ log' = out.log
    /\ UNCHANGED <<SUPPORT_MULTIPLE_SCHEMA_MATCHING, config_sources, entity_log_sources,
                   els_alias, payload, promoted>>

\* _put_metric(data)
PutMetric ==
    /\ call.op = "input"
    /\ call.fn = "_put_metric"
    /\ \E out \in {_put_metric(call.data, call.sink)} :
          /\ call' = [op |-> "_put_metric", data |-> call.data, sink |-> call.sink,
                      out |-> out]
          /\ log' = out.log
    /\ UNCHANGED <<SUPPORT_MULTIPLE_SCHEMA_MATCHING, config_sources, entity_log_sources,
                   els_alias, payload, promoted>>

NextMetrics == PutMetricData \/ PutMetric

SpecMetrics == InitMetrics /\ [][NextMetrics]_vars

-----------------------------------------------------------------------------
(* A batch of records through one classifier: for each record a payload is *)
(* created, load_sources is called with its service and entity and then    *)
(* classify_record with the payload                                        *)

\* the (service, entity) pairs of the records of a batch
BatchSources == LoadInputs \cup PayloadSources

\* the record before this one, if any, failed: its lookup failed, or its
\* classification left it invalid
FailedBefore ==
    \/ call.op = "load_sources" /\ ~call.ret
    \/ call.op = "classify_record" /\ ~payload.valid
    \/ call.op # "__init__" /\ call.failed_before

InitBatch ==
    /\ SUPPORT_MULTIPLE_SCHEMA_MATCHING \in BOOLEAN
    /\ config_sources = ConfigSources
    /\ entity_log_sources = <<>>
    /\ els_alias = NoAlias
    /\ payload = StreamPayload("", <<>>, Raw("json", <<>>))
    /\ promoted = NoParse
    /\ log = <<>>
    /\ call = [op |-> "__init__"]

\* the next record of the batch: a payload is created for it
NextRecord ==
    /\ call.op \in {"__init__", "load_sources", "classify_record"}
    /\ \E src \in BatchSources, data \in RawInputs :
          payload' = StreamPayload(src[1], src[2], data)
    /\ promoted' = NoParse
    /\ log' = <<>>
    /\ call' = [op |-> "load_stream_payload", failed_before |-> FailedBefore]
    /\ UNCHANGED <<SUPPORT_MULTIPLE_SCHEMA_MATCHING, config_sources, entity_log_sources,
                   els_alias>>

\* classifier.load_sources(service, entity) for the record
LoadForRecord ==
    /\ call.op = "load_stream_payload"
    /\ \E r \in {load_sources(config_sources, entity_log_sources, els_alias,
                               payload.service, payload.entity)} :
          /\ config_sources' = r.config
          /\ entity_log_sources' = r.entity_log_sources
          /\ els_alias' = r.alias
          /\ log' = r.log
          /\ call' = [op |-> "load_sources", service |-> payload.service,
                      entity |-> payload.entity, ret |-> r.ret,
                      failed_before |-> call.failed_before]
    /\ UNCHANGED <<SUPPORT_MULTIPLE_SCHEMA_MATCHING, payload, promoted>>

\* classifier.classify_record(payload) for the record
ClassifyLoaded ==
    /\ call.op = "load_sources"
    /\ \E r \in {classify_record(entity_log_sources, payload,
                                  SUPPORT_MULTIPLE_SCHEMA_MATCHING)} :
          /\ payload' = r.payload
          /\ promoted' = IF r.ret = "True" THEN r.valid_parse ELSE promoted
          /\ log' = r.log
          /\ call' = [op |-> "classify_record", before |-> payload, ret |-> r.ret,
                      valid_parses |-> r.valid_parses, valid_parse |-> r.valid_parse,
                      loaded |-> call.ret, failed_before |-> call.failed_before]
    /\ UNCHANGED <<SUPPORT_MULTIPLE_SCHEMA_MATCHING, config_sources, entity_log_sources,
                   els_alias>>

NextBatch == NextRecord \/ LoadForRecord \/ ClassifyLoaded

SpecBatch == InitBatch /\ [][NextBatch]_vars

-----------------------------------------------------------------------------
(* Properties of the classification of a payload (Spec) *)

Classified == call.op = "classify_record"

\* C1: after classify_record on a payload that was not valid before, the
\* payload is valid if and only if _parse returned success and service, entity,
\* type, log_source and records are all truthy.
C1_ValidIffParsedAndComplete ==
    (Classified /\ ~call.before.valid) =>
        (payload.valid <=>
            /\ call.ret = "True"
            /\ payload.service # ""
            /\ payload.entity # <<>>
            /\ payload.type # ""
            /\ payload.log_source # <<>>
            /\ payload.records # <<>>)

\* a payload that was not valid has been classified and is valid
C1_Witness == Classified /\ ~call.before.valid /\ payload.valid

\* the candidate classify_record chose, as the enumerator produced it
ChosenAsParsed ==
    call.valid_parses[CHOOSE i \in DOMAIN call.valid_parses :
                          call.valid_parses[i].log_name = call.valid_parse.log_name]

\* an integer or float conversion failed: _convert_type logged it
ConversionFailed(lg) == \E i \in DOMAIN lg : lg[i].msg \in {NotAnInt, NotAFloat}

\* the coercion of a record of candidate c fails: a field declared integer or
\* float holds a value that is not of that type
CoercionFails(c) ==
    \E i \in DOMAIN c.parsed_data :
        ConversionFailed(_convert_type(c.parsed_data[i], c.root_schema).log)

\* _convert_type returns failure for a record of candidate c
CoercionReturnsFailure(c) ==
    \E i \in DOMAIN c.parsed_data : _convert_type(c.parsed_data[i], c.root_schema).ret = "False"

\* what is left of the payload when _parse returns False
LeftAsBefore ==
    /\ call.ret = "False"
    /\ payload.log_source = call.before.log_source
    /\ payload.type = call.before.type
    /\ payload.records = call.before.records
    /\ (~call.before.valid => ~payload.valid)

\* C2: when the coercion of a record of the canonical candidate fails (an
\* integer field holds a string that is no number), _parse returns False,
\* log_source, type and records of the payload are not assigned, and a payload
\* that was not valid stays not valid.
C2_CoercionFailureLeavesPayload ==
    (Classified /\ call.valid_parses # <<>> /\ CoercionFails(ChosenAsParsed)) => LeftAsBefore

\* The same for the failures _convert_type reports to _parse: the loop of
\* _parse returns before the three assignments.
ReturnedFailureLeavesPayload ==
    (Classified /\ call.valid_parses # <<>> /\ CoercionReturnsFailure(ChosenAsParsed)) =>
        LeftAsBefore

\* every record of candidate c satisfies the log_patterns of c
Survives(c) ==
    \A i \in DOMAIN c.parsed_data :
        \A j \in DOMAIN c.parser.options.log_patterns :
            LET pat == c.parser.options.log_patterns[j]
            IN  /\ HasKey(c.parsed_data[i], pat.key)
                /\ GetItem(c.parsed_data[i], pat.key).s \in pat.accepted

MultiMatch == Classified /\ SUPPORT_MULTIPLE_SCHEMA_MATCHING /\ Len(call.valid_parses) >= 2

\* C5: in multi-match mode with two or more candidates the chosen candidate is
\* the first, in the order of the candidate list, whose every record satisfies
\* its own log_patterns, and the first candidate when no candidate does.
C5_FirstSurvivorOrFirst ==
    MultiMatch =>
        LET vp == call.valid_parses
            survivors == {i \in DOMAIN vp : Survives(vp[i])}
        IN  /\ survivors # {} =>
                \E i \in survivors :
                    /\ \A j \in survivors : i <= j
                    /\ call.valid_parse.log_name = vp[i].log_name
            /\ survivors = {} => call.valid_parse.log_name = vp[1].log_name

\* two candidates, only the second of which survives, and it is chosen
C5_Witness ==
    /\ MultiMatch
    /\ ~Survives(call.valid_parses[1])
    /\ Survives(call.valid_parses[2])
    /\ call.valid_parse.log_name = call.valid_parses[2].log_name

\* C10: log_source, type and records of the payload come from one candidate,
\* the one the last successful _parse promoted; a call that succeeds promotes
\* exactly one of its candidates, and the pairing holds after every later call.
C10_RecordsBelongToLogSource ==
    /\ promoted = NoParse =>
          payload.log_source = <<>> /\ payload.type = "" /\ payload.records = <<>>
    /\ promoted # NoParse =>
          /\ payload.log_source = promoted.log_name
          /\ payload.type = promoted.parser.type
          /\ payload.records = promoted.parsed_data
    /\ (Classified /\ call.ret = "True") =>
          /\ Cardinality({i \in DOMAIN call.valid_parses :
                             call.valid_parses[i].log_name = payload.log_source}) = 1
          /\ Len(payload.records) = Len(ChosenAsParsed.parsed_data)
          /\ payload.type = ChosenAsParsed.parser.type

\* a payload classified before is classified again without success and keeps
\* the fields of the candidate promoted before
C10_Witness ==
    /\ Classified
    /\ call.ret = "False"
    /\ call.before.log_source # <<>>
    /\ promoted # NoParse
    /\ payload.records = promoted.parsed_data

-----------------------------------------------------------------------------
(* Properties of the enumeration of candidates (Spec) *)

\* the declared logs of the families in the cached list, in the order the
\* enumerator goes through them
Eligible == _get_log_info_for_source(entity_log_sources)

\* the parser the i-th eligible schema is tried with: of the type the payload
\* has, and of the type the schema declares when the payload has none
ParserOf(i) ==
    Parser(IF call.before.type # "" THEN call.before.type ELSE Eligible[i].parser,
           Eligible[i].configuration)

\* what that parser makes of the raw input of the payload classify_record was
\* called with
ParseOf(i) == parse(ParserOf(i), Eligible[i].schema, call.before.pre_parsed_record)

\* every record of a parse satisfies the log_patterns
Satisfy(records, log_patterns) ==
    \A i \in DOMAIN records : \A j \in DOMAIN log_patterns :
        /\ HasKey(records[i], log_patterns[j].key)
        /\ GetItem(records[i], log_patterns[j].key).s \in log_patterns[j].accepted

\* the eligible schemas whose parse is not empty
Parsing == {i \in DOMAIN Eligible : ParseOf(i) # <<>>}

\* those of them whose every parsed record satisfies the schema's log_patterns
Qualifying ==
    {i \in Parsing : Satisfy(ParseOf(i), Eligible[i].configuration.log_patterns)}

SingleMatch == Classified /\ ~SUPPORT_MULTIPLE_SCHEMA_MATCHING

\* C13: in single-match mode the enumerator returns at most one candidate: the
\* first eligible schema, in enumeration order, whose parse is not empty and
\* whose every parsed record satisfies the schema's log_patterns, whatever
\* the schemas after it would yield; a schema the filter rejects is not in the
\* result, and when no schema qualifies the result is empty and _parse fails.
C13_SingleMatchFirstQualifying ==
    SingleMatch =>
        /\ Len(call.valid_parses) <= 1
        /\ Qualifying = {} => call.valid_parses = <<>> /\ call.ret = "False"
        /\ Qualifying # {} =>
              \E i \in Qualifying :
                  /\ \A j \in Qualifying : i <= j
                  /\ call.valid_parses =
                        <<classified_log(Eligible[i].name, Eligible[i].schema, ParserOf(i),
                                         ParseOf(i))>>

\* the first eligible schema parses the input and its filter rejects it, and
\* the candidate returned is a later schema
C13_Witness ==
    /\ SingleMatch
    /\ 1 \in Parsing \ Qualifying
    /\ Len(call.valid_parses) = 1
    /\ call.valid_parses[1].log_name = Eligible[2].name

\* C14: in multi-match mode the enumerator returns, in enumeration order, one
\* candidate for every eligible schema whose parse of the raw input is not
\* empty, whether or not the records satisfy the log_patterns, and none for a
\* schema whose parse is empty.
C14_MultiMatchAllParsing ==
    (Classified /\ SUPPORT_MULTIPLE_SCHEMA_MATCHING) =>
        /\ Len(call.valid_parses) = Cardinality(Parsing)
        /\ \A n \in DOMAIN call.valid_parses :
              \E i \in Parsing :
                  /\ Cardinality({j \in Parsing : j <= i}) = n
                  /\ call.valid_parses[n].log_name = Eligible[i].name
                  /\ call.valid_parses[n].root_schema = Eligible[i].schema
                  /\ call.valid_parses[n].parsed_data = ParseOf(i)

\* several candidates are returned, one of which does not satisfy its own
\* log_patterns and is followed by another, and an eligible schema with an
\* empty parse is left out
C14_Witness ==
    /\ Classified
    /\ SUPPORT_MULTIPLE_SCHEMA_MATCHING
    /\ Len(call.valid_parses) = 3
    /\ ~Survives(call.valid_parses[2])
    /\ Parsing # DOMAIN Eligible

\* the family of a schema name: the part before the first ':'
Family(name) == split(name, ":")[1]

\* the place of a family in the cached list of the entity
PlaceInList(family) == CHOOSE i \in DOMAIN entity_log_sources : entity_log_sources[i] = family

\* the place of a schema in the logs configuration
PlaceInLogs(name) == CHOOSE i \in DOMAIN ConfigLogs : ConfigLogs[i].name = name

\* the declared schemas that can become a candidate of the call: of a family in
\* the cached list, with a parse that is not empty and, in single-match mode,
\* with records that satisfy the log_patterns
Candidates ==
    {i \in DOMAIN ConfigLogs :
        LET a == ConfigLogs[i]
            parser == Parser(IF call.before.type # "" THEN call.before.type ELSE a.parser,
                             a.configuration)
            parsed == parse(parser, a.schema, call.before.pre_parsed_record)
        IN  /\ \E n \in DOMAIN entity_log_sources : entity_log_sources[n] = Family(a.name)
            /\ parsed # <<>>
            /\ SUPPORT_MULTIPLE_SCHEMA_MATCHING \/ Satisfy(parsed, a.configuration.log_patterns)}

\* C16 as claimed: the candidates come in the order of the entity's list of
\* schema names, and the first candidate is of the family that comes first in
\* that list among the families of the schemas that can become a candidate.
C16_EntityListOrder ==
    (Classified /\ call.valid_parses # <<>>) =>
        /\ \A n, m \in DOMAIN call.valid_parses :
              n < m => PlaceInList(Family(call.valid_parses[n].log_name))
                         <= PlaceInList(Family(call.valid_parses[m].log_name))
        /\ \A i \in Candidates :
              PlaceInList(Family(call.valid_parses[1].log_name))
                 <= PlaceInList(Family(ConfigLogs[i].name))

\* C16 amended: the candidates come in the order in which the logs
\* configuration declares the schemas, and the first candidate is the schema
\* that comes first in the logs configuration among those that can become a
\* candidate, whatever the order of the entity's list.
C16_LogsDeclaredOrder ==
    (Classified /\ call.valid_parses # <<>>) =>
        /\ \A n, m \in DOMAIN call.valid_parses :
              n < m => PlaceInLogs(call.valid_parses[n].log_name)
                         < PlaceInLogs(call.valid_parses[m].log_name)
        /\ PlaceInLogs(call.valid_parses[1].log_name) \in Candidates
        /\ \A i \in Candidates : PlaceInLogs(call.valid_parses[1].log_name) <= i

\* several candidates, the first of which is of the family the entity's list
\* names last
C16_Witness ==
    /\ Classified
    /\ Len(call.valid_parses) >= 2
    /\ Len(entity_log_sources) >= 2
    /\ Family(call.valid_parses[1].log_name) = entity_log_sources[Len(entity_log_sources)]

\* the part of a schema name before its first ':', the whole name when it
\* holds none
BeforeColon(name) ==
    IF \E i \in DOMAIN name : name[i] = ":"
    THEN SubSeq(name, 1, (CHOOSE i \in DOMAIN name :
                             name[i] = ":" /\ \A j \in 1..(i - 1) : name[j] # ":") - 1)
    ELSE name

\* C17: the schemas enumerated for a source are the declared schemas whose
\* family (the part of the name before the first ':') is in the cached list,
\* each once: every variant of a listed family, and no schema of a family
\* that is not listed.
C17_EnumeratedAreListedFamilies ==
    call.op = "_get_log_info_for_source" =>
        /\ {call.ret[i] : i \in DOMAIN call.ret}
              = {ConfigLogs[i].name : i \in {j \in DOMAIN ConfigLogs :
                    \E n \in DOMAIN entity_log_sources :
                        entity_log_sources[n] = BeforeColon(ConfigLogs[j].name)}}
        /\ Cardinality({call.ret[i] : i \in DOMAIN call.ret}) = Len(call.ret)

\* the two variants of a listed family are enumerated, and the schemas of the
\* other families are not
C17_Witness ==
    /\ call.op = "_get_log_info_for_source"
    /\ call.ret = << <<"multi", ":", "01">>, <<"multi", ":", "02">> >>

-----------------------------------------------------------------------------
(* Properties of load_sources (Spec) *)

Loading == call.op = "load_sources"

\* C7: after a call of load_sources the cached list is the configured log list
\* of the call's (service, entity) if the call succeeded and is empty if it
\* failed, whatever the calls before it left.
C7_CacheIsLastCall ==
    Loading =>
        entity_log_sources =
            IF call.ret THEN ConfigSources[call.service][call.entity].logs ELSE <<>>

\* a call succeeded with a list of several schemas
C7_Witness == Loading /\ call.ret /\ Len(entity_log_sources) = 3

Declared(service) == service \in DOMAIN ConfigSources

\* C8: load_sources fails for a service that is not declared and for an entity
\* that is not declared under its service, and logs exactly one error in each
\* case: the service message in the first, the entity message in the second.
C8_OneMessagePerFailureKind ==
    Loading =>
        /\ ~Declared(call.service) =>
              ~call.ret /\ Len(log) = 1 /\ log[1].msg = ServiceMissing
        /\ (Declared(call.service) /\ call.entity \notin DOMAIN ConfigSources[call.service]) =>
              ~call.ret /\ Len(log) = 1 /\ log[1].msg = EntityMissing

\* a call failed for an entity that its service does not declare
C8_Witness ==
    /\ Loading
    /\ Declared(call.service)
    /\ call.entity \notin DOMAIN ConfigSources[call.service]
    /\ Len(log) = 1
    /\ log[1].msg = EntityMissing

\* C20: the configuration is what it was at construction after every call:
\* the cache is a list of its own, the clearing that starts load_sources
\* empties no configured list, and a lookup of a declared (service, entity)
\* yields the list the configuration declares for it every time.
C20_ConfigurationNeverModified ==
    /\ config_sources = ConfigSources
    /\ els_alias = NoAlias
    /\ (Loading /\ Declared(call.service)
           /\ call.entity \in DOMAIN ConfigSources[call.service]) =>
          /\ entity_log_sources = ConfigSources[call.service][call.entity].logs
          /\ call.ret = (ConfigSources[call.service][call.entity].logs # <<>>)

\* the lookup that has just succeeded is repeated and yields the same list
C20_Witness ==
    /\ Loading
    /\ call.repeated
    /\ call.ret
    /\ entity_log_sources = ConfigSources["kinesis"][<<"stream_mixed">>].logs

-----------------------------------------------------------------------------
(* Properties of extract_service_and_entity (SpecExtract) *)

Resolved == call.op = "extract_service_and_entity"

\* the index of the n-th occurrence of d in s
Occurrence(s, d, n) ==
    CHOOSE i \in DOMAIN s : s[i] = d /\ Cardinality({j \in 1..(i - 1) : s[j] = d}) = n - 1
Count(s, d) == Cardinality({i \in DOMAIN s : s[i] = d})
\* the d-separated part of s that follows the n-th d
PartAfter(s, d, n) ==
    LET from == Occurrence(s, d, n)
        upto == IF Count(s, d) > n THEN Occurrence(s, d, n + 1) ELSE Len(s) + 1
    IN  SubSeq(s, from + 1, upto - 1)

Shapes(r) == r.keys \cap MapperKeys

\* C9: an envelope of exactly one known shape that holds the identifier of the
\* shape resolves to ('kinesis', the '/'-separated part of eventSourceARN after
\* the first '/'), ('s3', the bucket name) or ('sns', the sixth ':'-separated
\* part of EventSubscriptionArn); an envelope of no known shape to ('', '').
C9_ServiceAndEntityOfShape ==
    Resolved =>
        LET r == call.raw_record
            out == call.out
        IN  /\ (Shapes(r) = {"kinesis"} /\ "eventSourceARN" \in r.keys
                    /\ Count(r.eventSourceARN, "/") >= 1) =>
                  out = Extracted("return", "kinesis", PartAfter(r.eventSourceARN, "/", 1))
            /\ (Shapes(r) = {"s3"} /\ r.bucket # <<>>) =>
                  out = Extracted("return", "s3", r.bucket)
            /\ (Shapes(r) = {"Sns"} /\ "EventSubscriptionArn" \in r.keys
                    /\ Count(r.EventSubscriptionArn, ":") >= 5) =>
                  out = Extracted("return", "sns", PartAfter(r.EventSubscriptionArn, ":", 5))
            /\ Shapes(r) = {} => out = Extracted("return", "", <<>>)

\* an Sns envelope resolved to its topic
C9_Witness ==
    /\ Resolved
    /\ Shapes(call.raw_record) = {"Sns"}
    /\ call.out = Extracted("return", "sns", <<"unit_test_topic">>)

-----------------------------------------------------------------------------
(* Properties of _convert_type (SpecConvert) *)

Converted == call.op = "_convert_type"

\* C3: _convert_type returns success only if no integer or float conversion
\* failed anywhere in the walk, nested mappings included.
C3_NestedFailurePropagates ==
    (Converted /\ call.out.ret = "True") => ~ConversionFailed(call.out.log)

\* C4: _convert_type ends with a result for every record and schema: it never
\* raises.
C4_NeverRaises == Converted => call.out.ret # "raise"

\* the value of field f of the record cannot be converted to the declared type
Unparsable(rec, f) ==
    /\ HasKey(rec, f.key)
    /\ \/ f.node.tag = "integer" /\ int(GetItem(rec, f.key)).st # "ok"
       \/ f.node.tag = "float" /\ float(GetItem(rec, f.key)).st # "ok"

\* C6: _convert_type returns failure exactly when some integer or float field
\* of the top level of the schema holds a value that cannot be parsed as that
\* type.
C6_FailsExactlyOnNumericFields ==
    Converted =>
        (call.out.ret = "False" <=>
            \E i \in DOMAIN call.schema : Unparsable(call.payload, call.schema[i]))

\* the fields of a schema that are no list marker
WithoutLists(schema) == SelectSeq(schema, LAMBDA f : f.node.tag # "list")

\* C18: a field whose schema node is a list marker has after _convert_type the
\* value it had before, whatever the value is, and the call ends as it ends
\* for the schema without its list fields: it succeeds when the schema has
\* list fields only.
C18_ListFieldsUntouched ==
    Converted =>
        /\ \A i \in DOMAIN call.schema :
              (call.schema[i].node.tag = "list" /\ HasKey(call.payload, call.schema[i].key)) =>
                  GetItem(call.out.payload, call.schema[i].key)
                     = GetItem(call.payload, call.schema[i].key)
        /\ call.out.ret = _convert_type(call.payload, WithoutLists(call.schema)).ret
        /\ (\A i \in DOMAIN call.schema : call.schema[i].node.tag = "list") =>
              call.out = Outcome("True", call.payload, <<>>)

\* a list that holds a string no integer can be made of is left as it is
\* while the integer field next to it is converted
C18_Witness ==
    /\ Converted
    /\ \E i, j \in DOMAIN call.schema :
          /\ call.schema[i].node = ListMarker
          /\ call.schema[j].node = Tag("integer")
          /\ HasKey(call.payload, call.schema[i].key)
          /\ HasKey(call.payload, call.schema[j].key)
          /\ GetItem(call.payload, call.schema[i].key) = List(<<Str("hi"), Str("100")>>)
          /\ GetItem(call.out.payload, call.schema[i].key) = List(<<Str("hi"), Str("100")>>)
          /\ GetItem(call.out.payload, call.schema[j].key) = PyInt("100")

\* the schema declares a non-empty mapping for the envelope key at place i
EnvelopeAt(i) ==
    /\ call.schema[i].key = EnvelopeKey
    /\ call.schema[i].node.tag = "dict"
    /\ call.schema[i].node.sub # <<>>
    /\ HasKey(call.payload, EnvelopeKey)

\* the fields of a schema other than the envelope key
WithoutEnvelope(schema) == SelectSeq(schema, LAMBDA f : f.key # EnvelopeKey)

\* C19: when the record holds under 'streamalert:envelope_keys' a value that
\* is no mapping and the schema declares a non-empty mapping for it, the
\* value is left as it is and the call ends, with the other fields coerced,
\* as it ends for the schema without the envelope key: it succeeds and logs
\* nothing when the envelope key is the only field.  When the value is a
\* mapping and the walk comes to it, it is coerced as _convert_type coerces
\* a mapping with the sub-schema.
C19_EnvelopeKeysSkippedOrCoerced ==
    Converted =>
        \A i \in DOMAIN call.schema :
            /\ (EnvelopeAt(i) /\ GetItem(call.payload, EnvelopeKey).k # "dict") =>
                  /\ GetItem(call.out.payload, EnvelopeKey) = GetItem(call.payload, EnvelopeKey)
                  /\ call.out = _convert_type(call.payload, WithoutEnvelope(call.schema))
                  /\ Len(call.schema) = 1 => call.out = Outcome("True", call.payload, <<>>)
            /\ (EnvelopeAt(i) /\ GetItem(call.payload, EnvelopeKey).k = "dict"
                    /\ _convert_type(call.payload, SubSeq(call.schema, 1, i - 1)).ret = "True") =>
                  GetItem(call.out.payload, EnvelopeKey)
                     = _convert_type(GetItem(call.payload, EnvelopeKey),
                                     call.schema[i].node.sub).payload

\* a string under the envelope key is left as it is and the integer field
\* of the record is converted
C19_Witness ==
    /\ Converted
    /\ Len(call.schema) = 2
    /\ \E i \in DOMAIN call.schema : EnvelopeAt(i)
    /\ \E i \in DOMAIN call.schema : call.schema[i] = Field("key_01", Tag("integer"))
    /\ call.payload = Dict(<<Item("key_01", Str("100")), Item(EnvelopeKey, Str("NotInt"))>>)
    /\ call.out = Outcome("True",
                          Dict(<<Item("key_01", PyInt("100")),
                                 Item(EnvelopeKey, Str("NotInt"))>>), <<>>)

-----------------------------------------------------------------------------
(* Properties of a batch of records (SpecBatch) *)

\* the classifier as __init__ leaves it, after load_sources for the record
FreshlyLoaded(service, entity) ==
    load_sources(ConfigSources, <<>>, NoAlias, service, entity)

\* the record classified by a classifier that has processed no record before
ClassifiedAlone(pl, multi) ==
    classify_record(FreshlyLoaded(pl.service, pl.entity).entity_log_sources, pl, multi)

\* C11: the outcome of a record processed after other records (the result of
\* its lookup, and the valid flag, log_source, type and records the
\* classification leaves) is the outcome the same record has when a new
\* classifier processes it first: no earlier record, failed or not, changes it.
C11_RecordOutcomeIndependent ==
    /\ (call.op = "load_sources" /\ "failed_before" \in DOMAIN call) =>
          /\ call.ret = FreshlyLoaded(call.service, call.entity).ret
          /\ entity_log_sources = FreshlyLoaded(call.service, call.entity).entity_log_sources
    /\ (call.op = "classify_record" /\ "failed_before" \in DOMAIN call) =>
          LET alone == ClassifiedAlone(call.before, SUPPORT_MULTIPLE_SCHEMA_MATCHING)
          IN  /\ call.ret = alone.ret
              /\ payload.valid = alone.payload.valid
              /\ payload.log_source = alone.payload.log_source
              /\ payload.type = alone.payload.type
              /\ payload.records = alone.payload.records

\* a record is classified valid after an earlier record failed
C11_Witness ==
    /\ call.op = "classify_record"
    /\ "failed_before" \in DOMAIN call
    /\ call.failed_before
    /\ payload.valid

-----------------------------------------------------------------------------
(* Properties of the metrics sink (SpecMetrics) *)

Published == call.op \in {"put_metric_data", "_put_metric"}

\* the call reached the sink and the sink failed
SinkFailed ==
    /\ Published
    /\ call.sink # "ok"
    /\ call.op = "put_metric_data" =>
          call.metric_name \in MetricsName /\ call.unit \in MetricsUnit

\* C12: when the sink fails while a counter is published (a client error of
\* the service, the sink unreachable, any other error of the send), the call
\* returns to its caller without raising and the failure is logged.
C12_SinkFailureNeverPropagates ==
    SinkFailed =>
        /\ call.out.ret = "return"
        /\ \E i \in DOMAIN log : log[i].msg = FailedToSend

-----------------------------------------------------------------------------
(* Properties of _check_valid_parse (SpecResolve) *)

Checked == call.op = "_check_valid_parse"

\* C15: when the candidate list has exactly one element, or multi-match mode
\* is off, _check_valid_parse returns the first candidate whether or not its
\* records (or those of a later candidate) satisfy their log_patterns, and
\* reports no ambiguity.
C15_FirstUnconditionally ==
    (Checked /\ (Len(call.valid_parses) = 1 \/ ~SUPPORT_MULTIPLE_SCHEMA_MATCHING)) =>
        /\ call.ret = call.valid_parses[1]
        /\ log = <<>>

\* in multi-match mode a single candidate whose records do not satisfy its
\* own log_patterns is returned
C15_Witness ==
    /\ Checked
    /\ SUPPORT_MULTIPLE_SCHEMA_MATCHING
    /\ Len(call.valid_parses) = 1
    /\ ~Survives(call.valid_parses[1])
    /\ call.ret = call.valid_parses[1]

====
